---- MODULE Spec2Model ----
(***************************************************************************)
(* A model of django_geckoboard/decorators.py: the Geckoboard widget       *)
(* decorators.  A wrapped view checks the API key (_is_api_key_correct),   *)
(* calls the view, converts its result (_convert_view_result of the        *)
(* decorator in use) and renders it as JSON or XML (_render).              *)
(***************************************************************************)
EXTENDS Integers, Sequences, FiniteSets, TLC

VARIABLES
    settings,   \* django.conf.settings: a dict that may hold GECKOBOARD_API_KEY
    decorator,  \* the decorator instance that wraps the view
    view_obj,   \* the object the wrapped view returns (the same object on every call)
    reqs        \* per request in flight: its position in _wrapped_view and its locals

vars == <<settings, decorator, view_obj, reqs>>

-----------------------------------------------------------------------------
(* Python values.  A dict keeps its iteration order: a sequence of entries. *)

PyNone == [t |-> "None"]
PyBool(b) == [t |-> "bool", b |-> b]
PyInt(n) == [t |-> "int", n |-> n]
\* a float with a finite decimal expansion: num / 10^digits
PyFloat(num, digits) == [t |-> "float", n |-> num, d |-> digits]
PyStr(s) == [t |-> "str", s |-> s]
PyList(xs) == [t |-> "list", v |-> xs]
PyTuple(xs) == [t |-> "tuple", v |-> xs]
Entry(k, x) == [k |-> k, x |-> x]
PyDict(es) == [t |-> "dict", v |-> es]

\* isinstance(x, (tuple, list))
IsSeq(x) == x.t \in {"list", "tuple"}

\* isinstance(x, dict)
IsDict(x) == x.t = "dict"

\* dict.keys(), in iteration order
Keys(d) == [i \in 1..Len(d.v) |-> d.v[i].k]

HasKey(d, k) == \E i \in 1..Len(d.v) : d.v[i].k = k

\* d[k]
Item(d, k) == d.v[CHOOSE i \in 1..Len(d.v) : d.v[i].k = k].x

\* d.get(k, default)
DictGet(d, k, default) == IF HasKey(d, k) THEN Item(d, k) ELSE default

\* a mapping of the request (META, POST, GET) or of the settings: .get(k, default)
Get(m, k, default) == IF k \in DOMAIN m THEN m[k] ELSE default

NoKeys == [k \in {} |-> ""]

-----------------------------------------------------------------------------
(* Byte strings (Python 2 str) of the Authorization header and the API key:  *)
(* sequences of byte codes.                                                  *)

OrdTable ==
    ("a" :> 97) @@ ("b" :> 98) @@ ("c" :> 99) @@ ("d" :> 100) @@ ("e" :> 101)
    @@ ("i" :> 105) @@ ("r" :> 114) @@ ("s" :> 115) @@ ("t" :> 116) @@ ("x" :> 120)
    @@ ("A" :> 65) @@ ("B" :> 66) @@ ("C" :> 67) @@ ("I" :> 73) @@ ("S" :> 83)
    @@ ("Y" :> 89) @@ ("W" :> 87) @@ ("J" :> 74) @@ ("j" :> 106)
    @@ (" " :> 32) @@ (":" :> 58) @@ ("=" :> 61) @@ ("!" :> 33) @@ ("\t" :> 9)

Bytes(cs) == [i \in 1..Len(cs) |-> OrdTable[cs[i]]]

Colon == OrdTable[":"]

\* string.whitespace
IsSpace(c) == c \in {32, 9, 10, 11, 12, 13}

\* a lower() that leaves the bytes as they are
Lower_identity(s) == s

\* str.lower()
Lower(s) == [i \in 1..Len(s) |-> IF s[i] >= 65 /\ s[i] <= 90 THEN s[i] + 32 ELSE s[i]]

RECURSIVE SplitFrom(_, _, _)
\* str.split(): the maximal runs of non-whitespace bytes, in order
SplitFrom(s, i, word) ==
    IF i > Len(s)
    THEN IF word = <<>> THEN <<>> ELSE <<word>>
    ELSE IF IsSpace(s[i])
         THEN (IF word = <<>> THEN <<>> ELSE <<word>>) \o SplitFrom(s, i + 1, <<>>)
         ELSE SplitFrom(s, i + 1, Append(word, s[i]))

Split(s) == SplitFrom(s, 1, <<>>)

\* s.split(':')[0]: the part before the first colon, all of s when it has none
BeforeColon(s) ==
    IF \E i \in 1..Len(s) : s[i] = Colon
    THEN SubSeq(s, 1, (CHOOSE i \in 1..Len(s) :
                          s[i] = Colon /\ \A j \in 1..(i - 1) : s[j] # Colon) - 1)
    ELSE s

BASE64_PAD == OrdTable["="]

\* binascii's table_b2a_base64: the character of a 6-bit value
table_b2a_base64(v) ==
    IF v < 26 THEN 65 + v
    ELSE IF v < 52 THEN 97 + (v - 26)
    ELSE IF v < 62 THEN 48 + (v - 52)
    ELSE IF v = 62 THEN 43 ELSE 47

\* binascii's table_a2b_base64: the 6-bit value of a character, -1 when it has
\* none; the pad character is in the table with value 0
table_a2b_base64(c) ==
    IF c >= 65 /\ c <= 90 THEN c - 65
    ELSE IF c >= 97 /\ c <= 122 THEN c - 71
    ELSE IF c >= 48 /\ c <= 57 THEN c + 4
    ELSE IF c = 43 THEN 62
    ELSE IF c = 47 THEN 63
    ELSE IF c = BASE64_PAD THEN 0
    ELSE -1

RECURSIVE b64encode(_)
\* base64.b64encode, as the clients of the tests build the header
b64encode(s) ==
    IF Len(s) = 0 THEN <<>>
    ELSE IF Len(s) = 1
    THEN << table_b2a_base64(s[1] \div 4), table_b2a_base64((s[1] % 4) * 16),
            BASE64_PAD, BASE64_PAD >>
    ELSE IF Len(s) = 2
    THEN << table_b2a_base64(s[1] \div 4),
            table_b2a_base64((s[1] % 4) * 16 + s[2] \div 16),
            table_b2a_base64((s[2] % 16) * 4), BASE64_PAD >>
    ELSE << table_b2a_base64(s[1] \div 4),
            table_b2a_base64((s[1] % 4) * 16 + s[2] \div 16),
            table_b2a_base64((s[2] % 16) * 4 + s[3] \div 64),
            table_b2a_base64(s[3] % 64) >> \o b64encode(SubSeq(s, 4, Len(s)))

RECURSIVE binascii_find_valid(_, _, _)
\* the (num+1)th character from position i on that has a base64 value, -1 if none
binascii_find_valid(s, i, num) ==
    IF i > Len(s) THEN -1
    ELSE IF s[i] <= 127 /\ table_a2b_base64(s[i]) # -1
         THEN IF num = 0 THEN s[i] ELSE binascii_find_valid(s, i + 1, num - 1)
         ELSE binascii_find_valid(s, i + 1, num)

RECURSIVE a2b_base64(_, _, _, _, _, _)
\* binascii.a2b_base64's loop: characters without a value are skipped, a pad
\* sequence ends the input; what is returned is the bits left over and the bytes
a2b_base64(s, i, quad_pos, leftchar, leftbits, out) ==
    IF i > Len(s) THEN [leftbits |-> leftbits, out |-> out]
    ELSE IF s[i] > 127 \/ s[i] \in {13, 10, 32}
    THEN a2b_base64(s, i + 1, quad_pos, leftchar, leftbits, out)
    ELSE IF s[i] = BASE64_PAD
    THEN IF \/ quad_pos < 2
            \/ (quad_pos = 2 /\ binascii_find_valid(s, i, 1) # BASE64_PAD)
         THEN a2b_base64(s, i + 1, quad_pos, leftchar, leftbits, out)
         ELSE [leftbits |-> 0, out |-> out]
    ELSE IF table_a2b_base64(s[i]) = -1
    THEN a2b_base64(s, i + 1, quad_pos, leftchar, leftbits, out)
    ELSE LET lc == leftchar * 64 + table_a2b_base64(s[i])
             lb == leftbits + 6
         IN  IF lb >= 8
             THEN a2b_base64(s, i + 1, (quad_pos + 1) % 4, lc % (2 ^ (lb - 8)), lb - 8,
                             Append(out, (lc \div (2 ^ (lb - 8))) % 256))
             ELSE a2b_base64(s, i + 1, (quad_pos + 1) % 4, lc, lb, out)

\* base64.b64decode (Python 2): binascii.Error "Incorrect padding" is re-raised
\* as TypeError
b64decode(s) ==
    LET r == a2b_base64(s, 1, 0, 0, 0, <<>>)
    IN  IF r.leftbits # 0
        THEN [raised |-> TRUE, exc |-> "TypeError", val |-> <<>>]
        ELSE [raised |-> FALSE, exc |-> "", val |-> r.out]

-----------------------------------------------------------------------------
(* The API key gate.                                                        *)

API_KEY_SETTING == "GECKOBOARD_API_KEY"
AUTH_HEADER == "HTTP_AUTHORIZATION"

Returns(val) == [raised |-> FALSE, exc |-> "", val |-> val]

\* a header check that takes any request key that starts with the API key
header_key_startswith(request, api_key) ==
    LET auth == Split(Get(request.META, AUTH_HEADER, <<>>))
    IN  IF Len(auth) = 2 /\ Lower(auth[1]) = Bytes(<<"b", "a", "s", "i", "c">>)
        THEN LET decoded == b64decode(auth[2])
                 request_key == BeforeColon(decoded.val)
             IN  IF decoded.raised
                 THEN [raised |-> TRUE, exc |-> decoded.exc, val |-> FALSE]
                 ELSE Returns(/\ Len(request_key) >= Len(api_key)
                              /\ SubSeq(request_key, 1, Len(api_key)) = api_key)
        ELSE Returns(FALSE)

\* _is_api_key_correct(request) from the header on, for a configured API key:
\* the value returned, or the exception raised
header_key_correct(request, api_key) ==
    LET auth == Split(Get(request.META, AUTH_HEADER, <<>>))
    IN  IF Len(auth) = 2 /\ Lower(auth[1]) = Bytes(<<"b", "a", "s", "i", "c">>)
        THEN LET decoded == b64decode(auth[2])
                 request_key == BeforeColon(decoded.val)
             IN  IF decoded.raised
                 THEN [raised |-> TRUE, exc |-> decoded.exc, val |-> FALSE]
                 ELSE Returns(request_key = api_key)
        ELSE Returns(FALSE)

\* a gate that takes a missing setting for the empty API key
is_api_key_correct_no_default(request) ==
    header_key_correct(request, Get(settings, API_KEY_SETTING, <<>>))

\* _is_api_key_correct(request): without the setting every request is correct
is_api_key_correct(request) ==
    IF API_KEY_SETTING \notin DOMAIN settings
    THEN Returns(TRUE)
    ELSE header_key_correct(request, settings[API_KEY_SETTING])

-----------------------------------------------------------------------------
(* Rendering.                                                               *)

\* 10^d
RECURSIVE Pow10(_)
Pow10(d) == IF d = 0 THEN 1 ELSE 10 * Pow10(d - 1)

Abs(n) == IF n < 0 THEN -n ELSE n

RECURSIVE Digits(_, _)
\* n written with exactly d decimal digits
Digits(n, d) == IF d = 0 THEN "" ELSE Digits(n \div 10, d - 1) \o ToString(n % 10)

RECURSIVE FloatRepr(_, _)
\* repr of the float num / 10^digits: the shortest decimal, with at least one
\* digit after the point
FloatRepr(num, digits) ==
    IF digits = 0 THEN ToString(num) \o ".0"
    ELSE IF digits > 1 /\ num % 10 = 0 THEN FloatRepr(num \div 10, digits - 1)
    ELSE (IF num < 0 THEN "-" ELSE "")
         \o ToString(Abs(num) \div Pow10(digits)) \o "."
         \o Digits(Abs(num) % Pow10(digits), digits)

\* str(data) of a scalar
Str(x) ==
    CASE x.t = "str" -> x.s
      [] x.t = "int" -> ToString(x.n)
      [] x.t = "float" -> FloatRepr(x.n, x.d)
      [] x.t = "bool" -> IF x.b THEN "True" ELSE "False"
      [] x.t = "None" -> "None"

RECURSIVE Join(_, _)
\* sep.join(parts)
Join(parts, sep) ==
    IF Len(parts) = 0 THEN ""
    ELSE IF Len(parts) = 1 THEN parts[1]
    ELSE parts[1] \o sep \o Join(Tail(parts), sep)

RECURSIVE render_json(_)
\* _render_json: json.dumps(data)
render_json(data) ==
    CASE data.t = "None" -> "null"
      [] data.t = "bool" -> IF data.b THEN "true" ELSE "false"
      [] data.t = "int" -> ToString(data.n)
      [] data.t = "float" -> FloatRepr(data.n, data.d)
      [] data.t = "str" -> "\"" \o data.s \o "\""
      [] IsSeq(data) ->
            "[" \o Join([i \in 1..Len(data.v) |-> render_json(data.v[i])], ", ") \o "]"
      [] IsDict(data) ->
            "{" \o Join([i \in 1..Len(data.v) |->
                           "\"" \o data.v[i].k \o "\": " \o render_json(data.v[i].x)],
                        ", ") \o "}"

\* DOM nodes of xml.dom.minidom
TextNode(s) == [t |-> "text", data |-> s]
Element(tag, children) == [t |-> "elem", tag |-> tag, children |-> children]
NoDoc == [t |-> "nodoc"]

RECURSIVE Concat(_)
\* the sequences of a sequence, one after another
Concat(ss) == IF Len(ss) = 0 THEN <<>> ELSE Head(ss) \o Concat(Tail(ss))

\* _build_str_xml: the nodes appended to the parent
build_str_xml(data) == <<TextNode(Str(data))>>

RECURSIVE build_xml(_)
RECURSIVE build_list_xml(_)
RECURSIVE build_dict_xml(_)

\* _build_list_xml: every item is built into the same parent
build_list_xml(data) == Concat([i \in 1..Len(data.v) |-> build_xml(data.v[i])])

\* a _build_dict_xml that makes one element per entry, a list's items inside it
build_dict_xml_container(data) ==
    [i \in 1..Len(data.v) |-> Element(data.v[i].k, build_xml(data.v[i].x))]

\* _build_dict_xml: one element per entry, but one element per subitem when the
\* entry's value is a list or tuple
build_dict_xml(data) ==
    Concat([i \in 1..Len(data.v) |->
        LET tag == data.v[i].k
            item == data.v[i].x
        IN  IF IsSeq(item)
            THEN [j \in 1..Len(item.v) |-> Element(tag, build_xml(item.v[j]))]
            ELSE <<Element(tag, build_xml(item))>>])

\* _build_xml: the nodes appended to the parent for data
build_xml(data) ==
    IF IsSeq(data) THEN build_list_xml(data)
    ELSE IF IsDict(data) THEN build_dict_xml(data)
    ELSE build_str_xml(data)

\* _render_xml, up to toxml(): the document's root element
xml_document(data) == Element("root", build_xml(data))

RECURSIVE writexml(_)
\* Node.writexml: an element without children is written <tag/>; the texts of
\* the views here hold no character that is escaped
writexml(node) ==
    IF node.t = "text" THEN node.data
    ELSE IF Len(node.children) = 0 THEN "<" \o node.tag \o "/>"
    ELSE "<" \o node.tag \o ">"
         \o Join([i \in 1..Len(node.children) |-> writexml(node.children[i])], "")
         \o "</" \o node.tag \o ">"

\* Document.toxml()
toxml(doc) == "<?xml version=\"1.0\" ?>" \o writexml(doc)

\* _render_xml
render_xml(data) == toxml(xml_document(data))

FORMAT_PARAM == "format"

\* a lookup that reads the query string first
request_format_get_first(request) ==
    LET format == Get(request.GET, FORMAT_PARAM, "")
    IN  IF format = "" THEN Get(request.POST, FORMAT_PARAM, "") ELSE format

\* the format _render reads: the form body's first, the query string's when the
\* form body's is missing or empty
request_format(request) ==
    LET format == Get(request.POST, FORMAT_PARAM, "")
    IN  IF format = "" THEN Get(request.GET, FORMAT_PARAM, "") ELSE format

\* _render: the content, and the DOM document built on the XML path
render(request, data) ==
    IF request_format(request) = "2"
    THEN [content |-> render_json(data), doc |-> NoDoc]
    ELSE [content |-> render_xml(data), doc |-> xml_document(data)]

-----------------------------------------------------------------------------
(* The decorators' _convert_view_result.  Each returns the data handed to    *)
(* _render or the exception raised, and the view's object as the call leaves *)
(* it (a converter that works in place changes it).                          *)

Converted(data, obj) == [raised |-> FALSE, exc |-> "", data |-> data, obj |-> obj]
Raised(exc, obj) == [raised |-> TRUE, exc |-> exc, data |-> PyNone, obj |-> obj]

\* the truth value of a Python object
Truthy(x) ==
    CASE x.t = "None" -> FALSE
      [] x.t = "bool" -> x.b
      [] x.t \in {"int", "float"} -> x.n # 0
      [] x.t = "str" -> x.s # ""
      [] x.t \in {"list", "tuple", "dict"} -> Len(x.v) > 0

\* d.pop(k) of a dict that has k: the dict without the entry
DictPop(d, k) == PyDict(SelectSeq(d.v, LAMBDA e : e.k # k))

\* d[k] = x: the entry is replaced where it is, or added
DictSet(d, k, x) ==
    IF HasKey(d, k)
    THEN PyDict([i \in 1..Len(d.v) |-> IF d.v[i].k = k THEN Entry(k, x) ELSE d.v[i]])
    ELSE PyDict(Append(d.v, Entry(k, x)))

\* WidgetDecorator._convert_view_result: the data is returned as it is
widget_convert(result) == Converted(result, result)

\* a Number conversion that keeps the None entries
number_convert_keeps_none(result) ==
    LET values == IF ~IsSeq(result) THEN <<result>> ELSE result.v
    IN  Converted(
            PyDict(<<Entry("item",
                PyList([i \in 1..Len(values) |-> PyDict(<<Entry("value", values[i])>>)]))>>),
            result)

\* NumberWidgetDecorator._convert_view_result
number_convert(result) ==
    LET values == IF ~IsSeq(result) THEN <<result>> ELSE result.v
        kept == SelectSeq(values, LAMBDA v : v.t # "None")
    IN  Converted(
            PyDict(<<Entry("item",
                PyList([i \in 1..Len(kept) |-> PyDict(<<Entry("value", kept[i])>>)]))>>),
            result)

\* the byte order of the strings the model's views use as labels
StrOrder == <<"", "a", "b", "step 1", "step 2">>
StrRank(s) == CHOOSE i \in 1..Len(StrOrder) : StrOrder[i] = s

\* a < b for two scalars of one type
ScalarLess(a, b) == IF a.t = "str" THEN StrRank(a.s) < StrRank(b.s) ELSE a.n < b.n

RECURSIVE TupleLess(_, _)
\* a < b for two tuples: the first differing position decides, a prefix is less
TupleLess(a, b) ==
    IF Len(b) = 0 THEN FALSE
    ELSE IF Len(a) = 0 THEN TRUE
    ELSE IF a[1] = b[1] THEN TupleLess(Tail(a), Tail(b))
    ELSE ScalarLess(a[1], b[1])

RECURSIVE InsertDesc(_, _)
\* x put into a descending sequence, after the entries not less than it
InsertDesc(x, sorted) ==
    IF Len(sorted) = 0 THEN <<x>>
    ELSE IF TupleLess(Head(sorted).v, x.v) THEN <<x>> \o sorted
    ELSE <<Head(sorted)>> \o InsertDesc(x, Tail(sorted))

RECURSIVE InsertAsc(_, _)
InsertAsc(x, sorted) ==
    IF Len(sorted) = 0 THEN <<x>>
    ELSE IF TupleLess(x.v, Head(sorted).v) THEN <<x>> \o sorted
    ELSE <<Head(sorted)>> \o InsertAsc(x, Tail(sorted))

RECURSIVE SortAscending(_)
\* list.sort(): the sort without reverse=True
SortAscending(items) ==
    IF Len(items) = 0 THEN <<>>
    ELSE InsertAsc(items[1], SortAscending(Tail(items)))

RECURSIVE SortReverse(_)
\* list.sort(reverse=True)
SortReverse(items) ==
    IF Len(items) = 0 THEN <<>>
    ELSE InsertDesc(items[Len(items)], SortReverse(SubSeq(items, 1, Len(items) - 1)))

\* dict(zip(("value", "label"), item))
ZipValueLabel(item) ==
    PyDict([i \in 1..(IF Len(item.v) < 2 THEN Len(item.v) ELSE 2) |->
               Entry(<<"value", "label">>[i], item.v[i])])

\* FunnelWidgetDecorator._convert_view_result: items.sort works on the list of
\* the view's dict
funnel_convert(result) ==
    LET sort == Truthy(DictGet(result, "sort", PyNone))
        items == IF sort /\ HasKey(result, "items")
                 THEN PyList(SortReverse(Item(result, "items").v))
                 ELSE DictGet(result, "items", PyList(<<>>))
        obj == IF HasKey(result, "items") THEN DictSet(result, "items", items) ELSE result
    IN  Converted(
            PyDict(<< Entry("item", PyList([i \in 1..Len(items.v) |-> ZipValueLabel(items.v[i])])),
                      Entry("type", DictGet(result, "type", PyStr("standard"))),
                      Entry("percentage", DictGet(result, "percentage", PyStr("show"))) >>),
            obj)

\* int(n / d) for d > 0: the fraction is cut off toward zero
IntOf(n, d) == IF n >= 0 THEN n \div d ELSE -((-n) \div d)

RECURSIVE MkFloat(_, _)
\* the float num / 10^digits, with no trailing zero digit
MkFloat(num, digits) ==
    IF digits > 0 /\ num % 10 = 0 THEN MkFloat(num \div 10, digits - 1)
    ELSE PyFloat(num, digits)

\* float("%.*f" % (precision, n / d)) for d > 0: the nearest decimal with
\* precision digits, a tie going to the even last digit
FormatFloat(precision, n, d) ==
    LET scaled == n * Pow10(precision)
        fl == scaled \div d
        rem == scaled % d
    IN  MkFloat(IF 2 * rem > d \/ (2 * rem = d /\ fl % 2 = 1) THEN fl + 1 ELSE fl,
                precision)

\* an axis that takes one point at its word: min alone
axis_points_single(min_pt, max_pt, pts, precision) ==
    LET axis_pts == IF pts = 1
                    THEN << [n |-> min_pt, d |-> 1] >>
                    ELSE [i \in 1..pts |->
                            [n |-> (max_pt - min_pt) * (i - 1) + min_pt * (pts - 1),
                             d |-> pts - 1]]
    IN  IF precision = 0
        THEN [i \in 1..Len(axis_pts) |-> PyInt(IntOf(axis_pts[i].n, axis_pts[i].d))]
        ELSE [i \in 1..Len(axis_pts) |->
                FormatFloat(precision, axis_pts[i].n, axis_pts[i].d)]

\* the axis of BulletGraphWidgetDecorator._convert_view_result for pts >= 1:
\* point x of pts lies at min_pt + (max_pt - min_pt) * x / (pts - 1), kept here
\* as a fraction n / d.  For integer min and max and the small point counts of
\* the recipes below, the float arithmetic of the code gives the same integers
\* and the same decimals as the exact fractions.
axis_points(min_pt, max_pt, pts, precision) ==
    LET axis_pts == IF pts = 1
                    THEN << [n |-> min_pt, d |-> 1], [n |-> max_pt, d |-> 1] >>
                    ELSE [i \in 1..pts |->
                            [n |-> (max_pt - min_pt) * (i - 1) + min_pt * (pts - 1),
                             d |-> pts - 1]]
    IN  IF precision = 0
        THEN [i \in 1..Len(axis_pts) |-> PyInt(IntOf(axis_pts[i].n, axis_pts[i].d))]
        ELSE [i \in 1..Len(axis_pts) |->
                FormatFloat(precision, axis_pts[i].n, axis_pts[i].d)]

\* a check that asks for two points, as the message of the error says
too_few_points_below_2(pts) == pts < 2

\* if pts < 1: raise ValueError("Points must be at least 2")
too_few_points(pts) == pts < 1

\* BulletGraphWidgetDecorator._convert_view_result: the axis recipe is popped
\* from the view's dict and the points are stored in it
bullet_convert(result) ==
    LET item == Item(result, "item")
        d == Item(item, "axis")
        WithAxis(axis) == DictSet(result, "item", DictSet(item, "axis", axis))
        d1 == DictPop(d, "min")
        d2 == DictPop(d1, "max")
        pts == DictGet(d2, "points", PyInt(1)).n
        d3 == DictPop(d2, "points")
        precision == DictGet(d3, "precision", PyInt(0)).n
        d4 == DictPop(d3, "precision")
    IN  IF Truthy(DictGet(d, "point", PyNone)) THEN Converted(result, result)
        ELSE IF ~HasKey(d, "min") THEN Raised("KeyError", result)
        ELSE IF ~HasKey(d1, "max") THEN Raised("KeyError", WithAxis(d1))
        ELSE IF too_few_points(pts) THEN Raised("ValueError", WithAxis(d4))
        ELSE LET new == WithAxis(DictSet(d4, "point",
                            PyList(axis_points(Item(d, "min").n, Item(d1, "max").n,
                                               pts, precision))))
             IN  Converted(new, new)

\* the type codes of a Text item
TEXT_NONE == 0
TEXT_INFO == 2
TEXT_WARN == 1

\* a Text conversion that stores whatever type a pair carries, None as well
text_convert_keeps_none(result) ==
    LET elems == IF ~IsSeq(result) THEN <<result>> ELSE result.v
        Elem(i) == IF ~IsSeq(elems[i]) THEN <<elems[i]>> ELSE elems[i].v
    IN  IF \E i \in 1..Len(elems) : Len(Elem(i)) = 0
        THEN Raised("IndexError", result)
        ELSE Converted(
                PyDict(<<Entry("item",
                    PyList([i \in 1..Len(elems) |->
                        PyDict(<< Entry("text", Elem(i)[1]),
                                  Entry("type", IF Len(Elem(i)) > 1 THEN Elem(i)[2]
                                                ELSE PyInt(TEXT_NONE)) >>)]))>>),
                result)

\* TextWidgetDecorator._convert_view_result: elem[0] of an empty sequence
\* raises IndexError
text_convert(result) ==
    LET elems == IF ~IsSeq(result) THEN <<result>> ELSE result.v
        Elem(i) == IF ~IsSeq(elems[i]) THEN <<elems[i]>> ELSE elems[i].v
    IN  IF \E i \in 1..Len(elems) : Len(Elem(i)) = 0
        THEN Raised("IndexError", result)
        ELSE Converted(
                PyDict(<<Entry("item",
                    PyList([i \in 1..Len(elems) |->
                        PyDict(<< Entry("text", Elem(i)[1]),
                                  Entry("type",
                                        IF Len(Elem(i)) > 1 /\ Elem(i)[2].t # "None"
                                        THEN Elem(i)[2]
                                        ELSE PyInt(TEXT_NONE)) >>)]))>>),
                result)

\* an axis that keeps None, in a list of one
line_chart_axis_keeps_none(axis) == IF ~IsSeq(axis) THEN PyList(<<axis>>) ELSE axis

\* an axis of LineChartWidgetDecorator._convert_view_result: None becomes '',
\* what is not a tuple or list becomes a list of one
line_chart_axis(axis) ==
    LET named == IF axis.t = "None" THEN PyStr("") ELSE axis
    IN  IF ~IsSeq(named) THEN PyList(<<named>>) ELSE named

\* the settings of a Line chart a result of n entries gives
line_chart_settings(result, n) ==
    PyDict([i \in 1..(n - 1) |->
        Entry(<<"axisx", "axisy", "colour">>[i],
              IF i < 3 THEN line_chart_axis(result.v[i + 1]) ELSE result.v[i + 1])])

\* LineChartWidgetDecorator._convert_view_result: result[0] of an empty tuple
\* raises IndexError, entries after the fourth are not looked at
line_chart_convert(result) ==
    IF Len(result.v) = 0 THEN Raised("IndexError", result)
    ELSE Converted(
            PyDict(<< Entry("item", PyList(result.v[1].v)),
                      Entry("settings",
                            line_chart_settings(result,
                                IF Len(result.v) > 4 THEN 4 ELSE Len(result.v))) >>),
            result)

\* self._convert_view_result(view_result) of the decorator in use
convert_view_result(dec, result) ==
    CASE dec = "widget" -> widget_convert(result)
      [] dec = "text_widget" -> text_convert(result)
      [] dec = "line_chart" -> line_chart_convert(result)
      [] dec = "number_widget" -> number_convert(result)
      [] dec = "funnel" -> funnel_convert(result)
      [] dec = "bullet_graph" -> bullet_convert(result)

-----------------------------------------------------------------------------
(* _wrapped_view, one step at a time.                                       *)

Reqs == {"r1", "r2"}

NoRequest == [META |-> NoKeys, POST |-> NoKeys, GET |-> NoKeys]
NoOutcome == [kind |-> "none", status |-> 0, content |-> "", exc |-> ""]

\* HttpResponseForbidden("Geckoboard API key incorrect")
Forbidden ==
    [kind |-> "response", status |-> 403, content |-> "Geckoboard API key incorrect",
     exc |-> ""]

\* HttpResponse(content)
HttpResponse(content) ==
    [kind |-> "response", status |-> 200, content |-> content, exc |-> ""]

\* an exception leaves _wrapped_view: there is no response
Raises(exc) == [kind |-> "raise", status |-> 0, content |-> "", exc |-> exc]

\* the locals of a _convert_view_result that has not bound them
NoLocals == [min_pt |-> PyNone, max_pt |-> PyNone, pts |-> PyNone, precision |-> PyNone]

\* no request: the locals of _wrapped_view before it is entered
IdleReq ==
    [pc |-> "idle", request |-> NoRequest, calls |-> 0, input |-> PyNone,
     locals |-> NoLocals, data |-> PyNone, doc |-> NoDoc, outcome |-> NoOutcome]

\* the decorators that hand the view's own object to _render
Aliased(dec) == dec \in {"widget", "bullet_graph"}

\* the wrapped view is entered with a request
Receive(r, request) ==
    /\ reqs[r].pc = "idle"
    /\ reqs' = [reqs EXCEPT ![r] = [IdleReq EXCEPT !.pc = "gate", !.request = request]]
    /\ UNCHANGED <<settings, decorator, view_obj>>

\* if not _is_api_key_correct(request): return HttpResponseForbidden(...)
Gate(r) ==
    /\ reqs[r].pc = "gate"
    /\ LET ok == is_api_key_correct(reqs[r].request)
       IN  reqs' = [reqs EXCEPT ![r] =
                IF ok.raised THEN [@ EXCEPT !.pc = "done", !.outcome = Raises(ok.exc)]
                ELSE IF ~ok.val THEN [@ EXCEPT !.pc = "done", !.outcome = Forbidden]
                ELSE [@ EXCEPT !.pc = "view"]]
    /\ UNCHANGED <<settings, decorator, view_obj>>

\* view_result = view_func(request, *args, **kwargs)
CallView(r) ==
    /\ reqs[r].pc = "view"
    /\ reqs' = [reqs EXCEPT ![r] = [@ EXCEPT !.pc = "convert", !.calls = @ + 1]]
    /\ UNCHANGED <<settings, decorator, view_obj>>

\* data = self._convert_view_result(view_result)
Convert(r) ==
    /\ reqs[r].pc = "convert"
    /\ LET c == convert_view_result(decorator, view_obj)
       IN  /\ view_obj' = c.obj
           /\ reqs' = [reqs EXCEPT ![r] =
                IF c.raised
                THEN [@ EXCEPT !.pc = "done", !.input = view_obj,
                               !.outcome = Raises(c.exc)]
                ELSE [@ EXCEPT !.pc = "render", !.input = view_obj, !.data = c.data]]
    /\ UNCHANGED <<settings, decorator>>

\* content = _render(request, data); return HttpResponse(content)
Render(r) ==
    /\ reqs[r].pc = "render"
    /\ LET out == render(reqs[r].request,
                         IF Aliased(decorator) THEN view_obj ELSE reqs[r].data)
       IN  reqs' = [reqs EXCEPT ![r] =
                [@ EXCEPT !.pc = "done", !.doc = out.doc,
                          !.outcome = HttpResponse(out.content)]]
    /\ UNCHANGED <<settings, decorator, view_obj>>

\* _wrapped_view has returned or raised: its locals are gone
Return(r) ==
    /\ reqs[r].pc = "done"
    /\ reqs' = [reqs EXCEPT ![r] = IdleReq]
    /\ UNCHANGED <<settings, decorator, view_obj>>

\* the steps of request r after it was received
Step(r) == Gate(r) \/ CallView(r) \/ Convert(r) \/ Render(r) \/ Return(r)

-----------------------------------------------------------------------------
(* _convert_view_result of the Funnel and the Bullet graph one statement at  *)
(* a time, as threads that handle requests of one view run it: another       *)
(* thread may run between two statements, and the view hands every request   *)
(* the same object.                                                          *)

\* the view's Bullet graph dict with another axis dict
WithAxis(result, axis) ==
    DictSet(result, "item", DictSet(Item(result, "item"), "axis", axis))

\* the axis dict of the view's Bullet graph dict
AxisDict(result) == Item(Item(result, "item"), "axis")

\* if not result["item"]["axis"].get("point", None)
BulletCheck(r) ==
    /\ decorator = "bullet_graph"
    /\ reqs[r].pc = "convert"
    /\ reqs' = [reqs EXCEPT ![r] =
            IF Truthy(DictGet(AxisDict(view_obj), "point", PyNone))
            THEN [@ EXCEPT !.pc = "render", !.input = view_obj, !.data = view_obj]
            ELSE [@ EXCEPT !.pc = "pop_min", !.input = view_obj]]
    /\ UNCHANGED <<settings, decorator, view_obj>>

\* min_pt = d.pop("min")
BulletPopMin(r) ==
    /\ reqs[r].pc = "pop_min"
    /\ LET d == AxisDict(view_obj)
       IN  IF ~HasKey(d, "min")
           THEN /\ reqs' = [reqs EXCEPT ![r] =
                        [@ EXCEPT !.pc = "done", !.outcome = Raises("KeyError")]]
                /\ UNCHANGED view_obj
           ELSE /\ reqs' = [reqs EXCEPT ![r] =
                        [@ EXCEPT !.pc = "pop_max", !.locals.min_pt = Item(d, "min")]]
                /\ view_obj' = WithAxis(view_obj, DictPop(d, "min"))
    /\ UNCHANGED <<settings, decorator>>

\* max_pt = d.pop("max")
BulletPopMax(r) ==
    /\ reqs[r].pc = "pop_max"
    /\ LET d == AxisDict(view_obj)
       IN  IF ~HasKey(d, "max")
           THEN /\ reqs' = [reqs EXCEPT ![r] =
                        [@ EXCEPT !.pc = "done", !.outcome = Raises("KeyError")]]
                /\ UNCHANGED view_obj
           ELSE /\ reqs' = [reqs EXCEPT ![r] =
                        [@ EXCEPT !.pc = "pop_points", !.locals.max_pt = Item(d, "max")]]
                /\ view_obj' = WithAxis(view_obj, DictPop(d, "max"))
    /\ UNCHANGED <<settings, decorator>>

\* pts = d.pop("points", 1)
BulletPopPoints(r) ==
    /\ reqs[r].pc = "pop_points"
    /\ LET d == AxisDict(view_obj)
       IN  /\ reqs' = [reqs EXCEPT ![r] =
                   [@ EXCEPT !.pc = "pop_precision",
                             !.locals.pts = DictGet(d, "points", PyInt(1))]]
           /\ view_obj' = WithAxis(view_obj, DictPop(d, "points"))
    /\ UNCHANGED <<settings, decorator>>

\* precision = d.pop("precision", 0)
BulletPopPrecision(r) ==
    /\ reqs[r].pc = "pop_precision"
    /\ LET d == AxisDict(view_obj)
       IN  /\ reqs' = [reqs EXCEPT ![r] =
                   [@ EXCEPT !.pc = "axis",
                             !.locals.precision = DictGet(d, "precision", PyInt(0))]]
           /\ view_obj' = WithAxis(view_obj, DictPop(d, "precision"))
    /\ UNCHANGED <<settings, decorator>>

\* the check of pts, the axis computed from the locals, and
\* result["item"]["axis"]["point"] = axis; return result
BulletAxis(r) ==
    /\ reqs[r].pc = "axis"
    /\ LET l == reqs[r].locals
           new == WithAxis(view_obj,
                           DictSet(AxisDict(view_obj), "point",
                                   PyList(axis_points(l.min_pt.n, l.max_pt.n,
                                                      l.pts.n, l.precision.n))))
       IN  IF too_few_points(l.pts.n)
           THEN /\ reqs' = [reqs EXCEPT ![r] =
                        [@ EXCEPT !.pc = "done", !.outcome = Raises("ValueError")]]
                /\ UNCHANGED view_obj
           ELSE /\ reqs' = [reqs EXCEPT ![r] = [@ EXCEPT !.pc = "render", !.data = new]]
                /\ view_obj' = new
    /\ UNCHANGED <<settings, decorator>>

\* items = result.get('items', []); if result.get('sort'):
\* items.sort(reverse=True): the sort is one call that no thread interrupts
FunnelSort(r) ==
    /\ decorator = "funnel"
    /\ reqs[r].pc = "convert"
    /\ reqs' = [reqs EXCEPT ![r] = [@ EXCEPT !.pc = "build", !.input = view_obj]]
    /\ view_obj' = funnel_convert(view_obj).obj
    /\ UNCHANGED <<settings, decorator>>

\* data["item"], data["type"], data["percentage"] from the list and the dict as
\* they are now: where 'sort' is set the list is sorted by now, and sorting it
\* again leaves it as it is
FunnelBuild(r) ==
    /\ reqs[r].pc = "build"
    /\ reqs' = [reqs EXCEPT ![r] =
            [@ EXCEPT !.pc = "render", !.data = funnel_convert(view_obj).data]]
    /\ UNCHANGED <<settings, decorator, view_obj>>

\* the statements of _convert_view_result of request r
ConvertStep(r) ==
    \/ BulletCheck(r) \/ BulletPopMin(r) \/ BulletPopMax(r) \/ BulletPopPoints(r)
    \/ BulletPopPrecision(r) \/ BulletAxis(r)
    \/ FunnelSort(r) \/ FunnelBuild(r)

-----------------------------------------------------------------------------
(* The requests and views of the gate's checks: a base widget whose view     *)
(* returns "test", API keys and credentials over a small alphabet.           *)

MaxTokenLen == 3
MaxKeyLen == 2

RECURSIVE SeqsUpTo(_, _)
\* the sequences over a set of length up to n
SeqsUpTo(alphabet, n) ==
    IF n = 0 THEN {<<>>}
    ELSE LET shorter == SeqsUpTo(alphabet, n - 1)
         IN  shorter \cup {Append(s, c) : s \in {x \in shorter : Len(x) = n - 1},
                                          c \in alphabet}

\* the decoded credentials a client sends: "user" or "user:password"
Tokens == SeqsUpTo({OrdTable["a"], OrdTable["b"], Colon}, MaxTokenLen)

ApiKeys == {k \in Tokens : Len(k) <= MaxKeyLen}

Space == Bytes(<<" ">>)
BasicSchemes == {Bytes(<<"b", "a", "s", "i", "c">>), Bytes(<<"B", "a", "s", "i", "c">>)}
OtherSchemes == {Bytes(<<"b", "e", "a", "r", "e", "r">>)}

\* "<scheme> <base64 of the credential>", as the tests build it
EncodedHeader(scheme, credential) == scheme \o Space \o b64encode(credential)

\* the same with the last character of the base64 text lost
TruncatedHeader(scheme, credential) ==
    scheme \o Space \o SubSeq(b64encode(credential), 1, Len(b64encode(credential)) - 1)

WellFormedHeaders == {EncodedHeader(sch, c) : sch \in BasicSchemes, c \in Tokens}
UndecodableHeaders ==
    {TruncatedHeader(sch, c) : sch \in BasicSchemes, c \in Tokens \ {<<>>}}
NonBasicHeaders == {EncodedHeader(sch, c) : sch \in OtherSchemes, c \in Tokens}
\* not two parts: no part, one part, three parts
WrongPartsHeaders ==
    {<<>>, Space} \cup BasicSchemes
    \cup {EncodedHeader(sch, c) \o Space \o Bytes(<<"x">>) : sch \in BasicSchemes,
                                                     c \in ApiKeys \ {<<>>}}

GateHeaders ==
    WellFormedHeaders \cup UndecodableHeaders \cup NonBasicHeaders \cup WrongPartsHeaders

GateRequests ==
    [META : {NoKeys} \cup {AUTH_HEADER :> h : h \in GateHeaders},
     POST : {NoKeys, FORMAT_PARAM :> "2"},
     GET : {NoKeys}]

InitGate ==
    /\ settings \in {NoKeys} \cup {API_KEY_SETTING :> k : k \in ApiKeys}
    /\ decorator = "widget"
    /\ view_obj = PyStr("test")
    /\ reqs = [r \in Reqs |-> IdleReq]

ReceiveGate(r) == \E request \in GateRequests : Receive(r, request)

NextGate == \E r \in {"r1"} : ReceiveGate(r) \/ Step(r)

SpecGate == InitGate /\ [][NextGate]_vars

\* the Authorization header of a request, empty when it has none
HeaderOf(q) == Get(q.request.META, AUTH_HEADER, <<>>)

HasApiKey == API_KEY_SETTING \in DOMAIN settings

\* the user names a client may send: no colon in them
Users == {t \in Tokens : \A i \in 1..Len(t) : t[i] # Colon}

\* the Basic headers a client builds for user u, with or without a password:
\* the scheme and the base64 text of a credential that is not empty (of the
\* empty credential the base64 text is empty, and the header has one part)
BasicHeadersOf(u) ==
    {EncodedHeader(sch, c) :
        sch \in BasicSchemes,
        c \in ({u} \cup {u \o <<Colon>> \o pw : pw \in Tokens}) \ {<<>>}}

\* the same, user by user
HeadersByUser == [u \in Users |-> BasicHeadersOf(u)]

\* the responses of the tests for the view that returns "test"
TestXml == "<?xml version=\"1.0\" ?><root>test</root>"
TestJson == "\"test\""

\* C1: with an API key k configured, a request without Authorization header or
\* with a Basic header built for a user other than k never reaches the view
\* (no call is made at any point of the request) and ends with the fixed 403
\* response "Geckoboard API key incorrect".
C1_WrongKeyForbidden ==
    \A r \in Reqs :
        LET q == reqs[r]
        IN  ( /\ q.pc # "idle"
              /\ HasApiKey
              /\ \/ AUTH_HEADER \notin DOMAIN q.request.META
                 \/ \E u \in Users \ {settings[API_KEY_SETTING]} :
                        HeaderOf(q) \in HeadersByUser[u] )
            => /\ q.calls = 0
               /\ q.pc \in {"gate", "done"}
               /\ q.pc = "done" => q.outcome = Forbidden

\* a request with a Basic header for another user than the key was answered 403
C1_Witness ==
    \E r \in Reqs :
        /\ reqs[r].pc = "done"
        /\ HasApiKey
        /\ \E u \in Users \ {settings[API_KEY_SETTING]} :
               /\ HeaderOf(reqs[r]) \in HeadersByUser[u]
               /\ Len(u) > Len(settings[API_KEY_SETTING])
               /\ settings[API_KEY_SETTING] # <<>>
        /\ reqs[r].outcome = Forbidden

\* C2: with an API key k configured, a request whose Basic header was built for
\* user k (alone, or followed by a colon and a password) ends with the normal
\* response whose body is the rendering of the view's "test", after exactly
\* one call of the view.
C2_RightKeyPasses ==
    \A r \in Reqs :
        LET q == reqs[r]
        IN  ( /\ q.pc # "idle"
              /\ HasApiKey
              /\ settings[API_KEY_SETTING] \in Users
              /\ HeaderOf(q) \in HeadersByUser[settings[API_KEY_SETTING]] )
            => /\ q.calls <= 1
               /\ q.outcome # Forbidden
               /\ q.pc = "done" =>
                    /\ q.calls = 1
                    /\ q.outcome =
                         HttpResponse(IF Get(q.request.POST, FORMAT_PARAM, "") = "2"
                                      THEN TestJson ELSE TestXml)

\* a request with header "Basic <base64 of k:password>" got the view's result
C2_Witness ==
    \E r \in Reqs :
        /\ reqs[r].pc = "done"
        /\ HasApiKey
        /\ settings[API_KEY_SETTING] \in Users
        /\ settings[API_KEY_SETTING] # <<>>
        /\ HeaderOf(reqs[r]) =
             EncodedHeader(Bytes(<<"B", "a", "s", "i", "c">>),
                           settings[API_KEY_SETTING] \o <<Colon, OrdTable["a"]>>)
        /\ reqs[r].outcome.status = 200
        /\ reqs[r].calls = 1

\* C3: without a configured API key no request is answered 403 and none fails
\* in the gate, whatever its Authorization header; every request ends with the
\* normal response after one call of the view.
C3_NoKeyPermitsAll ==
    \A r \in Reqs :
        LET q == reqs[r]
        IN  ~HasApiKey =>
                /\ q.outcome.kind # "raise"
                /\ q.outcome.status # 403
                /\ q.pc = "done" => q.calls = 1 /\ q.outcome.status = 200

\* without an API key a request with an undecodable Basic header was answered 200
C3_Witness ==
    \E r \in Reqs :
        /\ ~HasApiKey
        /\ reqs[r].pc = "done"
        /\ HeaderOf(reqs[r]) \in UndecodableHeaders
        /\ reqs[r].outcome.status = 200

\* C4: with an API key configured, every request whose Authorization header has
\* not exactly two parts, has another scheme than Basic, or has a second part
\* that is not decodable base64 ends with the fixed 403 response, without an
\* exception and without a call of the view.
C4_MalformedForbidden ==
    \A r \in Reqs :
        LET q == reqs[r]
        IN  ( /\ q.pc = "done"
              /\ HasApiKey
              /\ HeaderOf(q) \in WrongPartsHeaders \cup NonBasicHeaders \cup UndecodableHeaders )
            => q.outcome = Forbidden /\ q.calls = 0

-----------------------------------------------------------------------------
(* The requests and views of the rendering checks: a base widget without    *)
(* API key, whose view returns a scalar, a list or a dict of up to two       *)
(* entries.                                                                  *)

MaxListLen == 2

RenderLeaves ==
    {PyInt(1), PyStr("x"), PyDict(<<Entry("value", PyInt(1)), Entry("text", PyStr("x"))>>)}

RenderValues == RenderLeaves \cup {PyList(xs) : xs \in SeqsUpTo(RenderLeaves, MaxListLen)}

RenderKeys == {<<"item">>, <<"b">>, <<"item", "b">>, <<"b", "item">>}

RenderPayloads ==
    RenderValues
    \cup {PyDict([i \in 1..Len(ks) |-> Entry(ks[i], xs[i])]) :
            ks \in {k \in RenderKeys : Len(k) = 1}, xs \in [1..1 -> RenderValues]}
    \cup {PyDict([i \in 1..Len(ks) |-> Entry(ks[i], xs[i])]) :
            ks \in {k \in RenderKeys : Len(k) = 2}, xs \in [1..2 -> RenderValues]}

FormatRequests ==
    [META : {NoKeys},
     POST : {NoKeys} \cup {FORMAT_PARAM :> f : f \in {"", "1", "2"}},
     GET : {NoKeys} \cup {FORMAT_PARAM :> f : f \in {"1", "2"}}]

InitRender ==
    /\ settings = NoKeys
    /\ decorator = "widget"
    /\ view_obj \in RenderPayloads
    /\ reqs = [r \in Reqs |-> IdleReq]

ReceiveRender(r) == \E request \in FormatRequests : Receive(r, request)

NextRender == \E r \in {"r1"} : ReceiveRender(r) \/ Step(r)

SpecRender == InitRender /\ [][NextRender]_vars

\* the rendering the format parameters of a request ask for
AsksJson(request) ==
    IF FORMAT_PARAM \in DOMAIN request.POST /\ request.POST[FORMAT_PARAM] # ""
    THEN request.POST[FORMAT_PARAM] = "2"
    ELSE FORMAT_PARAM \in DOMAIN request.GET /\ request.GET[FORMAT_PARAM] = "2"

\* C5: the response is the JSON rendering exactly when the form body's format
\* is "2", or the form body has no non-empty format and the query string's is
\* "2"; in every other case it is the XML rendering.
C5_FormatSelection ==
    \A r \in Reqs :
        LET q == reqs[r]
        IN  q.pc = "done" =>
                IF AsksJson(q.request)
                THEN q.doc = NoDoc /\ q.outcome = HttpResponse(render_json(view_obj))
                ELSE q.doc # NoDoc /\ q.outcome = HttpResponse(render_xml(view_obj))

\* a form body's "1" won over the query string's "2": the response is XML
C5_Witness ==
    \E r \in Reqs :
        /\ reqs[r].pc = "done"
        /\ Get(reqs[r].request.POST, FORMAT_PARAM, "") = "1"
        /\ Get(reqs[r].request.GET, FORMAT_PARAM, "") = "2"
        /\ reqs[r].doc # NoDoc
        /\ view_obj = PyStr("x")
        /\ reqs[r].outcome.content = "<?xml version=\"1.0\" ?><root>x</root>"

\* the number of elements an entry of a mapping is rendered as
Width(e) == IF IsSeq(e.x) THEN Len(e.x.v) ELSE 1

RECURSIVE Before(_, _)
\* the number of elements the entries before entry i are rendered as
Before(d, i) == IF i = 1 THEN 0 ELSE Before(d, i - 1) + Width(d.v[i - 1])

\* element elem holds x: a scalar as its one text node, a mapping of scalars
\* as one child element per key, in key order, each with its text
Holds(elem, x) ==
    IF IsDict(x)
    THEN /\ Len(elem.children) = Len(x.v)
         /\ \A k \in 1..Len(x.v) :
                elem.children[k] = Element(x.v[k].k, <<TextNode(Str(x.v[k].x))>>)
    ELSE elem.children = <<TextNode(Str(x))>>

\* C6: the XML document of a mapping is one element "root" whose children are,
\* entry after entry in key order, one element named after the key for a value
\* that is no sequence, and one element named after the key per entry of a
\* value that is a sequence, in the sequence's order, each holding its entry.
C6_XmlStructure ==
    \A r \in Reqs :
        LET q == reqs[r]
        IN  (q.pc = "done" /\ q.doc # NoDoc /\ IsDict(view_obj)) =>
                /\ q.doc.t = "elem" /\ q.doc.tag = "root"
                /\ Len(q.doc.children) = Before(view_obj, Len(view_obj.v) + 1)
                /\ \A i \in 1..Len(view_obj.v) :
                    \A j \in 1..Width(view_obj.v[i]) :
                        LET elem == q.doc.children[Before(view_obj, i) + j]
                            e == view_obj.v[i]
                        IN  /\ elem.t = "elem"
                            /\ elem.tag = e.k
                            /\ Holds(elem, IF IsSeq(e.x) THEN e.x.v[j] ELSE e.x)

\* {item: [{value: 1, text: "x"}, 1], b: "x"} was rendered as two sibling item
\* elements and one b element
C6_Witness ==
    \E r \in Reqs :
        /\ reqs[r].pc = "done"
        /\ view_obj = PyDict(<< Entry("item", PyList(<<
                                   PyDict(<<Entry("value", PyInt(1)), Entry("text", PyStr("x"))>>),
                                   PyInt(1) >>)),
                                Entry("b", PyStr("x")) >>)
        /\ reqs[r].outcome.content =
             "<?xml version=\"1.0\" ?><root><item><value>1</value><text>x</text></item>"
             \o "<item>1</item><b>x</b></root>"

-----------------------------------------------------------------------------
(* The requests and views of the converters' checks, without API key.       *)

JsonRequests ==
    [META : {NoKeys}, POST : {NoKeys, FORMAT_PARAM :> "2"}, GET : {NoKeys}]

ReceiveJson(r) == \E request \in JsonRequests : Receive(r, request)

NextConvert == \E r \in {"r1"} : ReceiveJson(r) \/ Step(r)

MaxNumbers == 3

NumberEntries == {PyInt(10), PyInt(9), PyNone}

\* what a Number view returns: a scalar, or a list or tuple of values
NumberResults ==
    NumberEntries
    \cup {PyList(xs) : xs \in SeqsUpTo(NumberEntries, MaxNumbers)}
    \cup {PyTuple(xs) : xs \in SeqsUpTo(NumberEntries, MaxNumbers)}

InitNumber ==
    /\ settings = NoKeys
    /\ decorator = "number_widget"
    /\ view_obj \in NumberResults
    /\ reqs = [r \in Reqs |-> IdleReq]

SpecNumber == InitNumber /\ [][NextConvert]_vars

\* the entries of a Number result: a scalar counts as its one entry
EntriesOf(result) == IF IsSeq(result) THEN result.v ELSE <<result>>

\* the position in xs of its k-th entry that is not None
NthKept(xs, k) ==
    CHOOSE i \in 1..Len(xs) :
        /\ xs[i] # PyNone
        /\ Cardinality({j \in 1..(i - 1) : xs[j] # PyNone}) = k - 1

\* C10: the Number payload is {item: [{value: v}, ...]} with one entry per
\* entry of the result that is not None, in the result's order, a scalar
\* result counting as a sequence of one; the tests' [10, None, 9] is rendered
\* without the None.
C10_NumberDropsNone ==
    \A r \in Reqs :
        LET q == reqs[r]
            xs == EntriesOf(q.input)
        IN  q.pc \in {"render", "done"} =>
                /\ q.outcome.kind # "raise"
                /\ Keys(q.data) = <<"item">>
                /\ IsSeq(Item(q.data, "item"))
                /\ LET out == Item(q.data, "item").v
                   IN  /\ Len(out) = Cardinality({i \in 1..Len(xs) : xs[i] # PyNone})
                       /\ \A k \in 1..Len(out) :
                            out[k] = PyDict(<<Entry("value", xs[NthKept(xs, k)])>>)
                /\ ( /\ q.pc = "done"
                     /\ q.input = PyList(<<PyInt(10), PyNone, PyInt(9)>>)
                     /\ AsksJson(q.request) )
                   => q.outcome.content = "{\"item\": [{\"value\": 10}, {\"value\": 9}]}"

\* the result [10, None, 9] was answered with the two values 10 and 9
C10_Witness ==
    \E r \in Reqs :
        /\ reqs[r].pc = "done"
        /\ reqs[r].input = PyList(<<PyInt(10), PyNone, PyInt(9)>>)
        /\ reqs[r].outcome.content = "{\"item\": [{\"value\": 10}, {\"value\": 9}]}"

MaxItems == 3

FunnelItems == {PyTuple(<<PyInt(v), PyStr(l)>>) : v \in {50, 100}, l \in {"a", "b"}}

\* the optional entries of a Funnel view's dict
FunnelOptions ==
    { <<>>, <<Entry("sort", PyBool(TRUE))>>, <<Entry("sort", PyBool(FALSE))>>,
      <<Entry("type", PyStr("reverse")), Entry("percentage", PyStr("hide"))>>,
      <<Entry("type", PyStr("reverse")), Entry("sort", PyBool(TRUE))>>,
      <<Entry("percentage", PyStr("hide")), Entry("sort", PyBool(TRUE))>> }

FunnelResults ==
    {PyDict(<<Entry("items", PyList(xs))>> \o opts) :
        xs \in SeqsUpTo(FunnelItems, MaxItems), opts \in FunnelOptions}
    \cup {PyDict(opts) : opts \in FunnelOptions}

InitFunnel ==
    /\ settings = NoKeys
    /\ decorator = "funnel"
    /\ view_obj \in FunnelResults
    /\ reqs = [r \in Reqs |-> IdleReq]

SpecFunnel == InitFunnel /\ [][NextConvert]_vars

\* the output item of an input pair: its value and its label
ItemOf(pair) == PyDict(<<Entry("value", pair.v[1]), Entry("label", pair.v[2])>>)

\* how often x is an entry of xs
Count(xs, x) == Cardinality({i \in 1..Len(xs) : xs[i] = x})

\* C9: the Funnel payload has the entries item, type, percentage; with a true
\* 'sort' the items are the input pairs, each as often as in the input, with
\* values that never rise; without 'sort' or with a false one they are the
\* input pairs in input order; type and percentage are the input's, or
\* "standard" and "show".
C9_FunnelSort ==
    \A r \in Reqs :
        LET q == reqs[r]
            pairs == IF HasKey(q.input, "items") THEN Item(q.input, "items").v ELSE <<>>
            sort == HasKey(q.input, "sort") /\ Item(q.input, "sort") = PyBool(TRUE)
        IN  q.pc \in {"render", "done"} =>
                /\ q.outcome.kind # "raise"
                /\ Keys(q.data) = <<"item", "type", "percentage">>
                /\ LET out == Item(q.data, "item").v
                   IN  /\ Len(out) = Len(pairs)
                       /\ sort =>
                            /\ \A i \in 1..Len(pairs) :
                                 Count(out, ItemOf(pairs[i]))
                                   = Count(pairs, pairs[i])
                            /\ \A i \in 1..(Len(out) - 1) :
                                 Item(out[i], "value").n >= Item(out[i + 1], "value").n
                       /\ ~sort => \A i \in 1..Len(pairs) : out[i] = ItemOf(pairs[i])
                /\ Item(q.data, "type") =
                     (IF HasKey(q.input, "type") THEN Item(q.input, "type")
                      ELSE PyStr("standard"))
                /\ Item(q.data, "percentage") =
                     (IF HasKey(q.input, "percentage") THEN Item(q.input, "percentage")
                      ELSE PyStr("show"))

\* items [(50, "a"), (100, "b")] with sort came out as 100 "b", 50 "a"
C9_Witness ==
    \E r \in Reqs :
        /\ reqs[r].pc = "done"
        /\ reqs[r].input =
             PyDict(<< Entry("items", PyList(<< PyTuple(<<PyInt(50), PyStr("a")>>),
                                                PyTuple(<<PyInt(100), PyStr("b")>>) >>)),
                       Entry("sort", PyBool(TRUE)) >>)
        /\ reqs[r].outcome.content =
             "{\"item\": [{\"value\": 100, \"label\": \"b\"}, {\"value\": 50, \"label\": \"a\"}], "
             \o "\"type\": \"standard\", \"percentage\": \"show\"}"

MaxPoints == 5
MaxPrecision == 2

\* the axis recipes of a Bullet graph view: min and max, points and precision
\* given or left out
AxisRecipes ==
    {PyDict(<<Entry("min", PyInt(lo)), Entry("max", PyInt(hi))>> \o pts \o prec) :
        lo \in {-1, 0}, hi \in {0, 1, 10, 20},
        pts \in {<<>>} \cup {<<Entry("points", PyInt(n))>> : n \in -1..MaxPoints},
        prec \in {<<>>} \cup {<<Entry("precision", PyInt(n))>> : n \in 0..MaxPrecision}}

\* an axis with its points, as in the tests, one without points and without
\* recipe, and one whose recipe lacks max
OtherAxes ==
    { PyDict(<<Entry("point", PyList(<<PyInt(1), PyInt(5), PyInt(10)>>))>>),
      PyDict(<<Entry("point", PyList(<<>>))>>),
      PyDict(<<Entry("min", PyInt(0))>>) }

BulletResult(axis) ==
    PyDict(<< Entry("orientation", PyStr("vertical")),
              Entry("item", PyDict(<<Entry("label", PyStr("test label")),
                                     Entry("axis", axis)>>)) >>)

InitBullet ==
    /\ settings = NoKeys
    /\ decorator = "bullet_graph"
    /\ view_obj \in {BulletResult(axis) : axis \in AxisRecipes \cup OtherAxes}
    /\ reqs = [r \in Reqs |-> IdleReq]

SpecBullet == InitBullet /\ [][NextConvert]_vars

\* the axis of a Bullet graph result
AxisOf(result) == Item(Item(result, "item"), "axis")

\* the axis is a recipe: min and max, and no points yet
IsRecipe(axis) ==
    /\ HasKey(axis, "min") /\ HasKey(axis, "max")
    /\ ~(HasKey(axis, "point") /\ Len(Item(axis, "point").v) > 0)

\* the point count and the precision a recipe asks for
PointsOf(axis) == IF HasKey(axis, "points") THEN Item(axis, "points").n ELSE 1
PrecisionOf(axis) == IF HasKey(axis, "precision") THEN Item(axis, "precision").n ELSE 0

\* x is the number n / d rounded to p decimal digits, and an integer when p = 0
IsRounded(x, n, d, p) ==
    /\ p = 0 => x.t = "int"
    /\ LET scaled == IF x.t = "int" THEN x.n * Pow10(p) ELSE x.n * Pow10(p - x.d)
       IN  2 * Abs(scaled * d - n * Pow10(p)) <= d

\* C7: a recipe with points >= 2 gives an axis of exactly 'points' entries, the
\* i-th being min + (max - min) * (i - 1) / (points - 1) rounded to 'precision'
\* decimal digits, so that the first is min and the last is max.
C7_AxisEvenlySpacedRounded ==
    \A r \in Reqs :
        LET q == reqs[r]
            recipe == AxisOf(q.input)
            pts == PointsOf(recipe)
            lo == Item(recipe, "min").n
            hi == Item(recipe, "max").n
        IN  (q.pc \in {"render", "done"} /\ IsRecipe(AxisOf(q.input)) /\ pts >= 2) =>
                /\ q.outcome.kind # "raise"
                /\ LET axis == Item(AxisOf(q.data), "point").v
                   IN  /\ Len(axis) = pts
                       /\ \A i \in 1..Len(axis) :
                            IsRounded(axis[i], (hi - lo) * (i - 1) + lo * (pts - 1),
                                      pts - 1, PrecisionOf(recipe))

\* C8: the conversion of a recipe raises ValueError, and the request has no
\* response, exactly when the point count is below 1; with a point count of 1
\* or more the request raises nothing.
C8_ValidationError ==
    \A r \in Reqs :
        LET q == reqs[r]
        IN  (q.pc \in {"render", "done"} /\ q.input # PyNone /\ IsRecipe(AxisOf(q.input))) =>
                IF PointsOf(AxisOf(q.input)) < 1
                THEN q.pc = "done" /\ q.outcome = Raises("ValueError")
                ELSE q.outcome.kind # "raise"

\* a recipe with points 0 ended in ValueError, without response
C8_Witness ==
    \E r \in Reqs :
        /\ reqs[r].pc = "done"
        /\ reqs[r].input # PyNone
        /\ IsRecipe(AxisOf(reqs[r].input))
        /\ PointsOf(AxisOf(reqs[r].input)) = 0
        /\ reqs[r].outcome = Raises("ValueError")

-----------------------------------------------------------------------------
(* Text views: a message, or a list or tuple of messages, each with or       *)
(* without a type.                                                           *)

MaxTexts == 3

\* the entries of a Text view's sequence: strings, and tuples and lists of a
\* string alone or with a type or None
TextElems ==
    { PyStr("test1"), PyStr("test2"),
      PyTuple(<<PyStr("test1")>>),
      PyTuple(<<PyStr("test2"), PyNone>>),
      PyTuple(<<PyStr("test1"), PyInt(TEXT_NONE)>>),
      PyTuple(<<PyStr("test2"), PyInt(TEXT_INFO)>>),
      PyTuple(<<PyStr("test3"), PyInt(TEXT_WARN)>>),
      PyList(<<PyStr("test3"), PyInt(TEXT_WARN)>>) }

TextSeqs == SeqsUpTo(TextElems, MaxTexts)

\* the results of a Text view, the last one with an entry that has no text
TextResults ==
    {PyStr("test message")}
    \cup {PyList(xs) : xs \in TextSeqs} \cup {PyTuple(xs) : xs \in TextSeqs}
    \cup {PyList(<<PyTuple(<<>>)>>)}

InitText ==
    /\ settings = NoKeys
    /\ decorator = "text_widget"
    /\ view_obj \in TextResults
    /\ reqs = [r \in Reqs |-> IdleReq]

SpecText == InitText /\ [][NextConvert]_vars

\* an entry of a Text result: a string, or a string in a sequence, alone or
\* followed by a type
IsTextEntry(e) ==
    \/ e.t = "str"
    \/ IsSeq(e) /\ Len(e.v) \in {1, 2} /\ e.v[1].t = "str"

\* a Text result: a string or a sequence of entries
IsTextResult(x) ==
    \/ x.t = "str"
    \/ IsSeq(x) /\ \A i \in 1..Len(x.v) : IsTextEntry(x.v[i])

\* the text of an entry, and its type where one that is not None is given
TextOf(e) == IF IsSeq(e) THEN e.v[1] ELSE e
TypeOf(e) == IF IsSeq(e) /\ Len(e.v) = 2 /\ e.v[2] # PyNone THEN e.v[2] ELSE PyInt(0)

\* C11: the Text payload is {item: [...]} with one {text, type} item per entry
\* of the result, in the result's order and with the keys in this order, a
\* bare string counting as one entry; type is the entry's type when it has one
\* that is not None, else 0; the tests' three typed messages are rendered with
\* the types 0, 2 and 1.
C11_TextItems ==
    \A r \in Reqs :
        LET q == reqs[r]
            xs == EntriesOf(q.input)
        IN  (q.pc \in {"render", "done"} /\ IsTextResult(q.input)) =>
                /\ q.outcome.kind # "raise"
                /\ Keys(q.data) = <<"item">>
                /\ IsSeq(Item(q.data, "item"))
                /\ LET out == Item(q.data, "item").v
                   IN  /\ Len(out) = Len(xs)
                       /\ \A i \in 1..Len(out) :
                            out[i] = PyDict(<< Entry("text", TextOf(xs[i])),
                                               Entry("type", TypeOf(xs[i])) >>)
                /\ ( /\ q.pc = "done"
                     /\ q.input = PyList(<< PyTuple(<<PyStr("test1"), PyInt(0)>>),
                                            PyTuple(<<PyStr("test2"), PyInt(2)>>),
                                            PyTuple(<<PyStr("test3"), PyInt(1)>>) >>)
                     /\ AsksJson(q.request) )
                   => q.outcome.content =
                        "{\"item\": [{\"text\": \"test1\", \"type\": 0}, "
                        \o "{\"text\": \"test2\", \"type\": 2}, "
                        \o "{\"text\": \"test3\", \"type\": 1}]}"

\* the one message ("test2", None) was answered with the type 0
C11_Witness ==
    \E r \in Reqs :
        /\ reqs[r].pc = "done"
        /\ reqs[r].input = PyList(<<PyTuple(<<PyStr("test2"), PyNone>>)>>)
        /\ reqs[r].outcome.content = "{\"item\": [{\"text\": \"test2\", \"type\": 0}]}"

-----------------------------------------------------------------------------
(* Line chart views: a tuple of the values and, in this order and each only  *)
(* with the ones before it, the x axis, the y axis and the colour.           *)

MaxValues == 3

LineValues == {PyList(xs) : xs \in SeqsUpTo({PyInt(1), PyInt(2), PyInt(3)}, MaxValues)}

\* the axes of a Line chart view: None, a label, lists and a tuple of labels
LineAxes ==
    { PyNone, PyStr("first"),
      PyList(<<PyStr("first"), PyStr("last")>>),
      PyList(<<PyStr("low"), PyStr("high")>>),
      PyTuple(<<PyStr("low")>>),
      PyList(<<>>) }

LineColours == {PyStr("00112233"), PyNone}

\* the results of a Line chart view, the first one without values
LineChartResults ==
    {PyTuple(<<>>)}
    \cup {PyTuple(<<v>>) : v \in LineValues}
    \cup {PyTuple(<<v, x>>) : v \in LineValues, x \in LineAxes}
    \cup {PyTuple(<<v, x, y>>) : v \in LineValues, x \in LineAxes, y \in LineAxes}
    \cup {PyTuple(<<v, x, y, c>>) :
            v \in LineValues, x \in LineAxes, y \in LineAxes, c \in LineColours}

InitLineChart ==
    /\ settings = NoKeys
    /\ decorator = "line_chart"
    /\ view_obj \in LineChartResults
    /\ reqs = [r \in Reqs |-> IdleReq]

SpecLineChart == InitLineChart /\ [][NextConvert]_vars

\* C12: a tuple of one to four entries gives {item, settings}: item holds the
\* values, settings the first n - 1 of axisx, axisy, colour for a tuple of n
\* entries; an axis given as a sequence is that sequence, one given as None is
\* [""], any other is the list of it alone; the colour is the one given.
C12_LineChartSettings ==
    \A r \in Reqs :
        LET q == reqs[r]
        IN  (q.pc \in {"render", "done"} /\ q.input.t = "tuple"
                                         /\ Len(q.input.v) \in 1..4) =>
                /\ q.outcome.kind # "raise"
                /\ Keys(q.data) = <<"item", "settings">>
                /\ IsSeq(Item(q.data, "item"))
                /\ Item(q.data, "item").v = q.input.v[1].v
                /\ LET s == Item(q.data, "settings")
                       n == Len(q.input.v)
                   IN  /\ Keys(s) = SubSeq(<<"axisx", "axisy", "colour">>, 1, n - 1)
                       /\ \A k \in 2..n :
                            LET given == q.input.v[k]
                                out == s.v[k - 1].x
                            IN  IF k = 4 THEN out = given
                                ELSE /\ IsSeq(out)
                                     /\ IsSeq(given) => out = given
                                     /\ given = PyNone => out = PyList(<<PyStr("")>>)
                                     /\ (~IsSeq(given) /\ given # PyNone)
                                            => out = PyList(<<given>>)
                /\ ( /\ q.pc = "done"
                     /\ q.input = PyTuple(<< PyList(<<PyInt(1), PyInt(2), PyInt(3)>>),
                                             PyList(<<PyStr("first"), PyStr("last")>>),
                                             PyList(<<PyStr("low"), PyStr("high")>>),
                                             PyStr("00112233") >>)
                     /\ AsksJson(q.request) )
                   => q.outcome.content =
                        "{\"item\": [1, 2, 3], \"settings\": "
                        \o "{\"axisx\": [\"first\", \"last\"], "
                        \o "\"axisy\": [\"low\", \"high\"], \"colour\": \"00112233\"}}"

\* the values [1, 2, 3] with the x axis None were answered with the axis [""]
C12_Witness ==
    \E r \in Reqs :
        /\ reqs[r].pc = "done"
        /\ reqs[r].input = PyTuple(<<PyList(<<PyInt(1), PyInt(2), PyInt(3)>>), PyNone>>)
        /\ reqs[r].outcome.content = "{\"item\": [1, 2, 3], \"settings\": {\"axisx\": [\"\"]}}"

\* the axis has its points: a sequence that is not empty
HasPoints(axis) == HasKey(axis, "point") /\ Len(Item(axis, "point").v) > 0

\* the number x is the integer k: an int, or a float of that value
IsNumber(x, k) == IF x.t = "int" THEN x.n = k ELSE x.t = "float" /\ x.n = k * Pow10(x.d)

\* C15: a recipe of one point, asked for or by default, gives the axis of the
\* two entries min and max (integers when precision is 0); a result whose
\* axis has its points already is handed on as it is, and is answered with
\* the rendering of the result as the view returned it.
C15_OnePointIsMinMax ==
    \A r \in Reqs :
        LET q == reqs[r]
        IN  (q.pc \in {"render", "done"} /\ q.input # PyNone) =>
                /\ (IsRecipe(AxisOf(q.input)) /\ PointsOf(AxisOf(q.input)) = 1) =>
                        /\ q.outcome.kind # "raise"
                        /\ LET axis == Item(AxisOf(q.data), "point").v
                               recipe == AxisOf(q.input)
                           IN  /\ Len(axis) = 2
                               /\ IsNumber(axis[1], Item(recipe, "min").n)
                               /\ IsNumber(axis[2], Item(recipe, "max").n)
                               /\ PrecisionOf(recipe) = 0 =>
                                     axis[1].t = "int" /\ axis[2].t = "int"
                /\ HasPoints(AxisOf(q.input)) =>
                        /\ q.data = q.input
                        /\ view_obj = q.input
                        /\ q.pc = "done" =>
                              q.outcome = HttpResponse(render(q.request, q.input).content)

\* the recipe from 0 to 20 of one point was answered with the axis [0, 20]
C15_Witness ==
    \E r \in Reqs :
        /\ reqs[r].pc = "done"
        /\ reqs[r].input # PyNone
        /\ AxisOf(reqs[r].input) =
             PyDict(<< Entry("min", PyInt(0)), Entry("max", PyInt(20)),
                       Entry("points", PyInt(1)) >>)
        /\ reqs[r].outcome.kind = "response"
        /\ Item(AxisOf(reqs[r].data), "point") = PyList(<<PyInt(0), PyInt(20)>>)

-----------------------------------------------------------------------------
(* Two requests of one Funnel or Bullet graph view at a time, their          *)
(* statements in any order.                                                  *)

\* axis recipes from 0 to 10 of no, one or three points, and the other axes
ConcurrentBullets ==
    {BulletResult(axis) : axis \in
        {a \in AxisRecipes : /\ Item(a, "min").n = 0 /\ Item(a, "max").n = 10
                             /\ PointsOf(a) \in {0, 1, 3} /\ PrecisionOf(a) \in {0, 1}}
        \cup OtherAxes}

\* the Funnel results of the items 50 "a", 100 "b"
ConcurrentFunnels ==
    {f \in FunnelResults :
        /\ HasKey(f, "items")
        /\ Item(f, "items") = PyList(<< PyTuple(<<PyInt(50), PyStr("a")>>),
                                        PyTuple(<<PyInt(100), PyStr("b")>>) >>)}

InitConcurrent ==
    /\ settings = NoKeys
    /\ \/ decorator = "bullet_graph" /\ view_obj \in ConcurrentBullets
       \/ decorator = "funnel" /\ view_obj \in ConcurrentFunnels
    /\ reqs = [r \in Reqs |-> IdleReq]

NextConcurrent ==
    \E r \in Reqs :
        ReceiveJson(r) \/ Gate(r) \/ CallView(r) \/ ConvertStep(r) \/ Render(r) \/ Return(r)

SpecConcurrent == InitConcurrent /\ [][NextConcurrent]_vars

\* what _wrapped_view answers a request whose view returned obj when no other
\* request is handled before it has answered
SerialOutcome(dec, obj, request) ==
    LET c == convert_view_result(dec, obj)
    IN  IF c.raised THEN Raises(c.exc)
        ELSE HttpResponse(render(request, IF Aliased(dec) THEN c.obj ELSE c.data).content)

\* handled one after another, every request of a view that returns obj gets
\* one and the same response: the first one raises nothing, and the next one
\* is given what the first one was given
SerialStable(dec, obj, request) ==
    LET c == convert_view_result(dec, obj)
    IN  /\ ~c.raised
        /\ SerialOutcome(dec, c.obj, request) = SerialOutcome(dec, obj, request)

\* C13: a request that was handled while another one was in flight has the
\* response it has when the requests are handled one after another: where
\* that response is the same for every request of the view, whatever their
\* order, the request has this response and has not raised.
C13_ConcurrentAsSerial ==
    \A r \in Reqs :
        LET q == reqs[r]
        IN  ( /\ q.pc = "done" /\ q.calls > 0
              /\ SerialStable(decorator, q.input, q.request) )
            => q.outcome = SerialOutcome(decorator, q.input, q.request)

-----------------------------------------------------------------------------
(* The views of all the decorators with a _convert_view_result of their own. *)

InitNormalizers == InitNumber \/ InitText \/ InitLineChart \/ InitFunnel \/ InitBullet

SpecNormalizers == InitNormalizers /\ [][NextConvert]_vars

\* C14: _convert_view_result leaves the object the view returned as it was
\* given: after the conversion, whether it returned or raised, the view's
\* object is equal to the one the conversion was called with.
C14_NormalizerPure ==
    \A r \in Reqs :
        LET q == reqs[r]
        IN  (q.pc \in {"render", "done"} /\ q.calls > 0) => view_obj = q.input

-----------------------------------------------------------------------------
(* The decorators together: any of the wrapped views above, any request.     *)

Init ==
    InitGate \/ InitRender \/ InitNumber \/ InitText \/ InitLineChart \/ InitFunnel
    \/ InitBullet

Next ==
    \E r \in {"r1"} : ReceiveGate(r) \/ ReceiveRender(r) \/ ReceiveJson(r) \/ Step(r)

Spec == Init /\ [][Next]_vars

====
